---- MODULE Spec2Model ----
(***************************************************************************)
(* Model of src/components/admin/DisplaySettings.tsx: the admin form that  *)
(* loads, edits and saves the singleton display-settings row (id = 1) and  *)
(* uploads a background image to object storage.                           *)
(*                                                                         *)
(* Conventions.  A nullable JavaScript value is a sequence: <<>> is null   *)
(* and <<v>> is the value v, so null, "" and a non-empty string are three  *)
(* different values.  A text typed into an input is a sequence of          *)
(* one-character strings, so that coercing it to a number is a real parse. *)
(* Every await of the source is a point where the handler is suspended: a  *)
(* handler is one action up to its request, and a later action resumes it  *)
(* with the backend's answer.  The answer to the read is an action of its  *)
(* own; a write (upload, upsert) takes effect in the backend in the step   *)
(* that resumes the handler with its answer.                               *)
(***************************************************************************)
EXTENDS Integers, Sequences, FiniteSets, TLC

VARIABLES
    form,             \* react-hook-form values of the three fields
    currentImageUrl,  \* useState preview of the image
    isSubmitting,     \* formState.isSubmitting (disables the submit button)
    errors,           \* formState.errors: the fields whose validation failed
    fetch,            \* fetchSettings: its position and the response it awaits
    uploads,          \* the handleImageUpload invocations that are suspended
    submit,           \* onSubmit: its position, request and response
    app_settings,     \* the backend table app_settings (a set of rows)
    storage,          \* the bucket 'images': a set of [path, file]
    toastCalls        \* the toast calls of the last step

vars == << form, currentImageUrl, isSubmitting, errors, fetch, uploads, submit,
           app_settings, storage, toastCalls >>

-----------------------------------------------------------------------------
(* Bounds of the model *)

\* The uploads that may be suspended at the same time.
MaxUploads == 2

\* The longest text typed into the minutes input when validation is checked.
MaxTextLen == 3

-----------------------------------------------------------------------------
(* Values *)

Null == <<>>

Some(v) == <<v>>

\* JavaScript truthiness of a nullable string: null and "" are falsy.
FalsyString(v) == v = Null \/ v = Some("")

\* JavaScript truthiness of a nullable number: null and 0 are falsy.
FalsyNumber(v) == v = Null \/ v = Some(0)

DefaultBackgroundColor == "#0A0A0A"

DefaultScreensaverIdleMinutes == 5

SettingsId == 1

NotFoundCode == "PGRST116"

\* A form value of the minutes field: a number (set by code) or a text (typed).
NumValue(n) == [t |-> "num", n |-> n, s |-> <<>>]

TextValue(s) == [t |-> "str", n |-> 0, s |-> s]

defaultValues ==
    [ backgroundImageUrl     |-> Null,
      backgroundColor        |-> DefaultBackgroundColor,
      screensaverIdleMinutes |-> NumValue(DefaultScreensaverIdleMinutes) ]

-----------------------------------------------------------------------------
(* z.coerce.number(): Number(v).  A number is [nan, whole, frac]: not a      *)
(* number, or whole + a fraction that is zero (frac = FALSE) or not.         *)

Digits == <<"0", "1", "2", "3", "4", "5", "6", "7", "8", "9">>

IsDigit(c) == \E i \in 1..10 : Digits[i] = c

DigitVal(c) == (CHOOSE i \in 1..10 : Digits[i] = c) - 1

NaN == [nan |-> TRUE, whole |-> 0, frac |-> FALSE]

Num(n) == [nan |-> FALSE, whole |-> n, frac |-> FALSE]

AllDigits(s) == \A i \in 1..Len(s) : IsDigit(s[i])

RECURSIVE DigitsValue(_)
DigitsValue(s) ==
    IF s = <<>> THEN 0
    ELSE 10 * DigitsValue(SubSeq(s, 1, Len(s) - 1)) + DigitVal(s[Len(s)])

\* An unsigned decimal literal: digits, optionally a "." and digits, at least one digit.
ParseUnsigned(s) ==
    LET dots == {i \in 1..Len(s) : s[i] = "."} IN
    IF dots = {} THEN
        IF s # <<>> /\ AllDigits(s) THEN Num(DigitsValue(s)) ELSE NaN
    ELSE
        LET d  == CHOOSE i \in dots : \A j \in dots : i <= j
            ip == SubSeq(s, 1, d - 1)
            fp == SubSeq(s, d + 1, Len(s))
        IN  IF AllDigits(ip) /\ AllDigits(fp) /\ Len(ip) + Len(fp) > 0
            THEN [nan |-> FALSE, whole |-> DigitsValue(ip), frac |-> DigitsValue(fp) # 0]
            ELSE NaN

Negate(x) ==
    IF x.nan THEN x
    ELSE IF x.frac THEN [x EXCEPT !.whole = -(x.whole) - 1]
    ELSE [x EXCEPT !.whole = -(x.whole)]

\* Number(text): "" is 0, an optional sign, then an unsigned literal; else NaN.
NumberOfText(s) ==
    IF s = <<>> THEN Num(0)
    ELSE IF s[1] = "-" THEN Negate(ParseUnsigned(Tail(s)))
    ELSE IF s[1] = "+" THEN ParseUnsigned(Tail(s))
    ELSE ParseUnsigned(s)

CoerceNumber(v) == IF v.t = "num" THEN Num(v.n) ELSE NumberOfText(v.s)

-----------------------------------------------------------------------------
(* formSchema *)

\* z.string().min(1)
BackgroundColorValid(c) == Len(c) >= 1

\* Mutant: .min(0) in place of .min(1).
ScreensaverIdleMinutesValid_Min0(v) ==
    LET x == CoerceNumber(v) IN ~x.nan /\ ~x.frac /\ x.whole >= 0

\* z.coerce.number().int().min(1)
ScreensaverIdleMinutesValid(v) ==
    LET x == CoerceNumber(v) IN ~x.nan /\ ~x.frac /\ x.whole >= 1

\* The fields the resolver reports an error for.
SchemaErrors(values) ==
    (IF BackgroundColorValid(values.backgroundColor) THEN {} ELSE {"backgroundColor"})
    \cup
    (IF ScreensaverIdleMinutesValid(values.screensaverIdleMinutes) THEN {}
     ELSE {"screensaverIdleMinutes"})

\* Mutant: the parsed output loses the image URL (the field is not in the schema).
SchemaParse_DropsImageUrl(values) ==
    [ backgroundImageUrl     |-> Null,
      backgroundColor        |-> values.backgroundColor,
      screensaverIdleMinutes |-> CoerceNumber(values.screensaverIdleMinutes).whole ]

\* The parsed output the resolver hands to onSubmit (minutes coerced to a number).
SchemaParse(values) ==
    [ backgroundImageUrl     |-> values.backgroundImageUrl,
      backgroundColor        |-> values.backgroundColor,
      screensaverIdleMinutes |-> CoerceNumber(values.screensaverIdleMinutes).whole ]

-----------------------------------------------------------------------------
(* The backend: table app_settings and bucket 'images' *)

\* .eq("id", 1).single(): the row, or the not-found error when there is none.
SelectSingle(table) ==
    LET rows == {r \in table : r.id = SettingsId} IN
    IF Cardinality(rows) = 1
    THEN [data |-> Some(CHOOSE r \in rows : TRUE), error |-> Null]
    ELSE [data |-> Null, error |-> Some(NotFoundCode)]

\* Mutant: an insert that leaves the row of that id in place.
Upsert_Insert(table, row) == table \cup {row}

\* .upsert(row, { onConflict: "id" }): replace the row of that id, or insert it.
Upsert(table, row) == {r \in table : r.id # row.id} \cup {row}

\* Mutant: the row is written under another id.
UpsertPayload_OtherId(values) ==
    [ id                       |-> 2,
      background_image_url     |-> IF FalsyString(values.backgroundImageUrl) THEN Null
                                   ELSE values.backgroundImageUrl,
      background_color         |-> Some(values.backgroundColor),
      screensaver_idle_minutes |-> Some(values.screensaverIdleMinutes) ]

\* Mutant: the image URL is sent as it is, without `|| null`.
UpsertPayload_KeepsEmpty(values) ==
    [ id                       |-> SettingsId,
      background_image_url     |-> values.backgroundImageUrl,
      background_color         |-> Some(values.backgroundColor),
      screensaver_idle_minutes |-> Some(values.screensaverIdleMinutes) ]

\* The object of onSubmit's upsert call.
UpsertPayload(values) ==
    [ id                       |-> SettingsId,
      background_image_url     |-> IF FalsyString(values.backgroundImageUrl) THEN Null
                                   ELSE values.backgroundImageUrl,
      background_color         |-> Some(values.backgroundColor),
      screensaver_idle_minutes |-> Some(values.screensaverIdleMinutes) ]

\* file.name.split('.').pop(): a file name is the sequence of its dot-separated parts.
FileExtension(file) == file[Len(file)]

\* `backgrounds/${uuidv4()}.${fileExtension}`
FilePath(uuid, file) == "backgrounds/" \o uuid \o "." \o FileExtension(file)

\* supabase.storage.from('images').getPublicUrl(filePath)
PublicUrl(filePath) == "https://project.supabase.co/storage/v1/object/public/images/" \o filePath

\* .upload(filePath, file, { upsert: false }): an object is stored only at a free path.
PathTaken(objects, filePath) == \E o \in objects : o.path = filePath

-----------------------------------------------------------------------------------------------------------------------------------------------------
(* sonner.  The notifications are output: toastCalls holds the toast calls of   *)
(* the last step, each [id, type, message].  sonner gives a new notification a *)
(* fresh id; the model names it by the handler that created it and, for the    *)
(* uploads, by a number no suspended upload holds.  A call with { id } replaces *)
(* the notification of that id.                                                *)

LoadErrorMessage == "Gagal memuat pengaturan tampilan."

UploadingMessage == "Mengunggah gambar latar belakang..."

UploadedMessage == "Gambar latar belakang berhasil diunggah!"

UploadErrorMessage(message) == "Gagal mengunggah gambar: " \o message

NoPublicUrlMessage == "Gagal mendapatkan URL publik gambar."

SaveErrorMessage == "Gagal menyimpan pengaturan tampilan."

SavedMessage == "Pengaturan tampilan berhasil disimpan!"

ToastId(op, n) == [op |-> op, n |-> n]

Toast(id, type, message) == [id |-> id, type |-> type, message |-> message]


-----------------------------------------------------------------------------
(* Inputs and initial states *)

\* Rows the table may hold before the component is mounted.
StoredRow ==
    [ id |-> SettingsId, background_image_url |-> Some("https://cdn.example/old.png"),
      background_color |-> Some("#123456"), screensaver_idle_minutes |-> Some(15) ]

\* A row written by another client, with the nullable columns empty.
SparseRow ==
    [ id |-> SettingsId, background_image_url |-> Some(""),
      background_color |-> Null, screensaver_idle_minutes |-> Null ]

\* A row of another feature, which this component never addresses.
OtherRow ==
    [ id |-> 2, background_image_url |-> Null,
      background_color |-> Some("#FFFFFF"), screensaver_idle_minutes |-> Some(1) ]

InitialTables == { {OtherRow}, {StoredRow, OtherRow}, {SparseRow} }

\* What the user types into the color input.
ColorInputs == {"", "#FF0000"}

\* What the user types into the minutes input.
MinutesInputs == { <<"0">>, <<"1", "0">> }

\* The files the user picks, each the dot-separated parts of its name.
Files == { <<"bg", "jpg">> }

\* The values uuidv4() returns; the same value twice is a collision.
Uuids == {"u1", "u2"}

IdleFetch == [pc |-> "mount", data |-> Null, error |-> Null]

IdleSubmit == [pc |-> "idle", values |-> defaultValues,
               payload |-> UpsertPayload(SchemaParse(defaultValues))]

Init ==
    /\ form = defaultValues
    /\ currentImageUrl = Null
    /\ isSubmitting = FALSE
    /\ errors = {}
    /\ fetch = IdleFetch
    /\ uploads = {}
    /\ submit = IdleSubmit
    /\ app_settings \in InitialTables
    /\ storage = {}
    /\ toastCalls = {}

-----------------------------------------------------------------------------
(* useEffect / fetchSettings *)

\* The effect runs once after the first render and issues the read.
Mount ==
    /\ fetch.pc = "mount"
    /\ fetch' = [fetch EXCEPT !.pc = "sent"]
    /\ toastCalls' = {}
    /\ UNCHANGED << form, currentImageUrl, isSubmitting, errors, uploads, submit,
                    app_settings, storage >>

\* The form values fetchSettings sets from a row.
FormOfRow(row) ==
    [ backgroundImageUrl     |-> row.background_image_url,
      backgroundColor        |-> IF FalsyString(row.background_color)
                                 THEN DefaultBackgroundColor
                                 ELSE row.background_color[1],
      screensaverIdleMinutes |-> IF FalsyNumber(row.screensaver_idle_minutes)
                                 THEN NumValue(DefaultScreensaverIdleMinutes)
                                 ELSE NumValue(row.screensaver_idle_minutes[1]) ]

\* Mutant: not-found is reported like any other error.
FetchSettled_AnyErrorToasts(r) ==
    IF r.error # Null THEN
        /\ toastCalls' = {Toast(ToastId("fetchSettings", 1), "error", LoadErrorMessage)}
        /\ UNCHANGED << form, currentImageUrl >>
    ELSE IF r.data # Null THEN
        /\ form' = FormOfRow(r.data[1])
        /\ currentImageUrl' = r.data[1].background_image_url
        /\ toastCalls' = {}
    ELSE
        /\ toastCalls' = {}
        /\ UNCHANGED << form, currentImageUrl >>

\* Mutant: the row is applied only to a form the user has not touched.
FetchSettled_KeepsEdits(r) ==
    IF r.error # Null /\ r.error # Some(NotFoundCode) THEN
        /\ toastCalls' = {Toast(ToastId("fetchSettings", 1), "error", LoadErrorMessage)}
        /\ UNCHANGED << form, currentImageUrl >>
    ELSE IF r.data # Null /\ form = defaultValues THEN
        /\ form' = FormOfRow(r.data[1])
        /\ currentImageUrl' = r.data[1].background_image_url
        /\ toastCalls' = {}
    ELSE
        /\ toastCalls' = {}
        /\ UNCHANGED << form, currentImageUrl >>

\* Mutant: the fields are set from the row and setCurrentImageUrl is forgotten.
FetchSettled_NoPreview(r) ==
    IF r.error # Null /\ r.error # Some(NotFoundCode) THEN
        /\ toastCalls' = {Toast(ToastId("fetchSettings", 1), "error", LoadErrorMessage)}
        /\ UNCHANGED << form, currentImageUrl >>
    ELSE IF r.data # Null THEN
        /\ form' = FormOfRow(r.data[1])
        /\ toastCalls' = {}
        /\ UNCHANGED currentImageUrl
    ELSE
        /\ toastCalls' = {}
        /\ UNCHANGED << form, currentImageUrl >>

\* Mutant: an error is logged and not shown.
FetchSettled_Silent(r) ==
    IF r.error = Null /\ r.data # Null THEN
        /\ form' = FormOfRow(r.data[1])
        /\ currentImageUrl' = r.data[1].background_image_url
        /\ toastCalls' = {}
    ELSE
        /\ toastCalls' = {}
        /\ UNCHANGED << form, currentImageUrl >>

\* fetchSettings after its await, for the response r.
FetchSettled(r) ==
    IF r.error # Null /\ r.error # Some(NotFoundCode) THEN
        /\ toastCalls' = {Toast(ToastId("fetchSettings", 1), "error", LoadErrorMessage)}
        /\ UNCHANGED << form, currentImageUrl >>
    ELSE IF r.data # Null THEN
        /\ form' = FormOfRow(r.data[1])
        /\ currentImageUrl' = r.data[1].background_image_url
        /\ toastCalls' = {}
    ELSE
        /\ toastCalls' = {}
        /\ UNCHANGED << form, currentImageUrl >>

\* The backend answers the read: the row or not-found, or another error.
SelectRespond ==
    /\ fetch.pc = "sent"
    /\ \E failed \in BOOLEAN :
          LET r == IF failed THEN [data |-> Null, error |-> Some("500")]
                   ELSE SelectSingle(app_settings)
          IN  fetch' = [pc |-> "answered", data |-> r.data, error |-> r.error]
    /\ toastCalls' = {}
    /\ UNCHANGED << form, currentImageUrl, isSubmitting, errors, uploads, submit,
                    app_settings, storage >>

\* fetchSettings resumes with the response it awaited.
FetchSettingsResume ==
    /\ fetch.pc = "answered"
    /\ FetchSettled(fetch)
    /\ fetch' = [fetch EXCEPT !.pc = "done"]
    /\ UNCHANGED << isSubmitting, errors, uploads, submit, app_settings, storage >>

-----------------------------------------------------------------------------
(* The registered inputs *)

Mounted == fetch.pc # "mount"

TypeBackgroundColor ==
    /\ Mounted
    /\ \E c \in ColorInputs : form' = [form EXCEPT !.backgroundColor = c]
    /\ toastCalls' = {}
    /\ UNCHANGED << currentImageUrl, isSubmitting, errors, fetch, uploads, submit,
                    app_settings, storage >>

TypeScreensaverIdleMinutes ==
    /\ Mounted
    /\ \E s \in MinutesInputs :
          form' = [form EXCEPT !.screensaverIdleMinutes = TextValue(s)]
    /\ toastCalls' = {}
    /\ UNCHANGED << currentImageUrl, isSubmitting, errors, fetch, uploads, submit,
                    app_settings, storage >>

-----------------------------------------------------------------------------
(* handleImageUpload *)

\* The change event carries no file: the handler returns at once.
HandleImageUploadNoFile ==
    /\ Mounted
    /\ toastCalls' = {}
    /\ UNCHANGED << form, currentImageUrl, isSubmitting, errors, fetch, uploads, submit,
                    app_settings, storage >>

\* The id toast.loading returns: one that no suspended upload holds.
FreshToastId ==
    ToastId("handleImageUpload",
            CHOOSE n \in 1..(Cardinality(uploads) + 1) :
                /\ \A u \in uploads : u.toastId.n # n
                /\ \A m \in 1..(n - 1) : \E u \in uploads : u.toastId.n = m)

\* The handler up to its await: the path, the loading notification, the request.
HandleImageUpload ==
    /\ Mounted
    /\ Cardinality(uploads) < MaxUploads
    /\ \E file \in Files, uuid \in Uuids :
          uploads' = uploads \cup {[ toastId  |-> FreshToastId,
                                     file     |-> file,
                                     filePath |-> FilePath(uuid, file) ]}
    /\ toastCalls' = {Toast(FreshToastId, "loading", UploadingMessage)}
    /\ UNCHANGED << form, currentImageUrl, isSubmitting, errors, fetch, submit,
                    app_settings, storage >>

\* Mutant: { upsert: true }, the object at the path is replaced.
StorageUpload_Overwrites(objects, filePath, file, failed) ==
    IF failed
    THEN [objects |-> objects, error |-> Some("Failed to fetch")]
    ELSE [objects |-> {o \in objects : o.path # filePath}
                         \cup {[path |-> filePath, file |-> file]},
          error   |-> Null]

\* .upload(filePath, file, { upsert: false }) on the bucket holding `objects`: the
\* objects it then holds and the error it answers, if any.
StorageUpload(objects, filePath, file, failed) ==
    IF PathTaken(objects, filePath)
    THEN [objects |-> objects, error |-> Some("The resource already exists")]
    ELSE IF failed
    THEN [objects |-> objects, error |-> Some("Failed to fetch")]
    ELSE [objects |-> objects \cup {[path |-> filePath, file |-> file]}, error |-> Null]

\* Mutant: a successful upload also saves the settings row.
UploadSettled_Saves(u, error, publicUrl) ==
    IF error = Null /\ ~FalsyString(publicUrl) THEN
        /\ form' = [form EXCEPT !.backgroundImageUrl = publicUrl]
        /\ currentImageUrl' = publicUrl
        /\ toastCalls' = {Toast(u.toastId, "success", UploadedMessage)}
        /\ app_settings' = Upsert(app_settings,
                                  [ id |-> SettingsId, background_image_url |-> publicUrl,
                                    background_color |-> Some(form.backgroundColor),
                                    screensaver_idle_minutes |-> Some(DefaultScreensaverIdleMinutes) ])
        /\ UNCHANGED << isSubmitting, submit >>
    ELSE
        /\ toastCalls' = {Toast(u.toastId, "error",
                                UploadErrorMessage(IF error # Null THEN error[1]
                                                   ELSE NoPublicUrlMessage))}
        /\ UNCHANGED << form, currentImageUrl, app_settings, isSubmitting, submit >>

\* Mutant: the field and the preview are set before the public URL is checked.
UploadSettled_SetsBeforeCheck(u, error, publicUrl) ==
    /\ IF error # Null THEN
            /\ toastCalls' = {Toast(u.toastId, "error", UploadErrorMessage(error[1]))}
            /\ UNCHANGED << form, currentImageUrl >>
       ELSE
            /\ form' = [form EXCEPT !.backgroundImageUrl = publicUrl]
            /\ currentImageUrl' = publicUrl
            /\ toastCalls' = IF ~FalsyString(publicUrl)
                             THEN {Toast(u.toastId, "success", UploadedMessage)}
                             ELSE {Toast(u.toastId, "error",
                                         UploadErrorMessage(NoPublicUrlMessage))}
    /\ UNCHANGED << app_settings, isSubmitting, submit >>

\* Mutant: only the preview is set, setValue is forgotten.
UploadSettled_PreviewOnly(u, error, publicUrl) ==
    /\ IF error # Null THEN
            /\ toastCalls' = {Toast(u.toastId, "error", UploadErrorMessage(error[1]))}
            /\ UNCHANGED << form, currentImageUrl >>
       ELSE IF ~FalsyString(publicUrl) THEN
            /\ currentImageUrl' = publicUrl
            /\ toastCalls' = {Toast(u.toastId, "success", UploadedMessage)}
            /\ UNCHANGED form
       ELSE
            /\ toastCalls' = {Toast(u.toastId, "error", UploadErrorMessage(NoPublicUrlMessage))}
            /\ UNCHANGED << form, currentImageUrl >>
    /\ UNCHANGED << app_settings, isSubmitting, submit >>

\* Mutant: a missing public URL is not reported.
UploadSettled_SilentOnNoUrl(u, error, publicUrl) ==
    /\ IF error # Null THEN
            /\ toastCalls' = {Toast(u.toastId, "error", UploadErrorMessage(error[1]))}
            /\ UNCHANGED << form, currentImageUrl >>
       ELSE IF ~FalsyString(publicUrl) THEN
            /\ form' = [form EXCEPT !.backgroundImageUrl = publicUrl]
            /\ currentImageUrl' = publicUrl
            /\ toastCalls' = {Toast(u.toastId, "success", UploadedMessage)}
       ELSE
            /\ toastCalls' = {}
            /\ UNCHANGED << form, currentImageUrl >>
    /\ UNCHANGED << app_settings, isSubmitting, submit >>

\* The handler after its await, for the upload u, the error of the upload and the
\* result of getPublicUrl.  It makes no call to the table.
UploadSettled(u, error, publicUrl) ==
    /\ IF error # Null THEN
            /\ toastCalls' = {Toast(u.toastId, "error", UploadErrorMessage(error[1]))}
            /\ UNCHANGED << form, currentImageUrl >>
       ELSE IF ~FalsyString(publicUrl) THEN
            /\ form' = [form EXCEPT !.backgroundImageUrl = publicUrl]
            /\ currentImageUrl' = publicUrl
            /\ toastCalls' = {Toast(u.toastId, "success", UploadedMessage)}
       ELSE
            /\ toastCalls' = {Toast(u.toastId, "error", UploadErrorMessage(NoPublicUrlMessage))}
            /\ UNCHANGED << form, currentImageUrl >>
    /\ UNCHANGED << app_settings, isSubmitting, submit >>

\* The bucket answers an upload and handleImageUpload resumes.
HandleImageUploadResume ==
    /\ \E u \in uploads, failed \in BOOLEAN :
          LET r == StorageUpload(storage, u.filePath, u.file, failed) IN
          /\ storage' = r.objects
          /\ \E publicUrl \in {Some(PublicUrl(u.filePath)), Null} :
                UploadSettled(u, r.error, publicUrl)
          /\ uploads' = uploads \ {u}
    /\ UNCHANGED << errors, fetch >>

-----------------------------------------------------------------------------
(* handleSubmit(onSubmit) *)

\* Mutant: the submit button is disabled until the settings are loaded.
HandleSubmit_WaitsForLoad ==
    /\ fetch.pc = "done"
    /\ fetch.error \in {Null, Some(NotFoundCode)}
    /\ ~isSubmitting
    /\ IF SchemaErrors(form) # {} THEN
            /\ errors' = SchemaErrors(form)
            /\ UNCHANGED << isSubmitting, submit >>
       ELSE
            /\ errors' = {}
            /\ isSubmitting' = TRUE
            /\ submit' = [ pc      |-> "sent",
                           values  |-> form,
                           payload |-> UpsertPayload(SchemaParse(form)) ]
    /\ toastCalls' = {}
    /\ UNCHANGED << form, currentImageUrl, fetch, uploads, app_settings, storage >>

\* Mutant: the submit button is also disabled while an upload is suspended.
HandleSubmit_WaitsForUpload ==
    /\ Mounted
    /\ ~isSubmitting
    /\ uploads = {}
    /\ IF SchemaErrors(form) # {} THEN
            /\ errors' = SchemaErrors(form)
            /\ UNCHANGED << isSubmitting, submit >>
       ELSE
            /\ errors' = {}
            /\ isSubmitting' = TRUE
            /\ submit' = [ pc      |-> "sent",
                           values  |-> form,
                           payload |-> UpsertPayload(SchemaParse(form)) ]
    /\ toastCalls' = {}
    /\ UNCHANGED << form, currentImageUrl, fetch, uploads, app_settings, storage >>

\* Mutant: the submit button is not disabled while submitting.
HandleSubmit_NotDisabled ==
    /\ Mounted
    /\ IF SchemaErrors(form) # {} THEN
            /\ errors' = SchemaErrors(form)
            /\ UNCHANGED << isSubmitting, submit >>
       ELSE
            /\ errors' = {}
            /\ isSubmitting' = TRUE
            /\ submit' = [ pc      |-> "sent",
                           values  |-> form,
                           payload |-> UpsertPayload(SchemaParse(form)) ]
    /\ toastCalls' = {}
    /\ UNCHANGED << form, currentImageUrl, fetch, uploads, app_settings, storage >>

\* The submit button (disabled while submitting): validation, then onSubmit up to
\* its await.
HandleSubmit ==
    /\ Mounted
    /\ ~isSubmitting
    /\ IF SchemaErrors(form) # {} THEN
            /\ errors' = SchemaErrors(form)
            /\ UNCHANGED << isSubmitting, submit >>
       ELSE
            /\ errors' = {}
            /\ isSubmitting' = TRUE
            /\ submit' = [ pc      |-> "sent",
                           values  |-> form,
                           payload |-> UpsertPayload(SchemaParse(form)) ]
    /\ toastCalls' = {}
    /\ UNCHANGED << form, currentImageUrl, fetch, uploads, app_settings, storage >>

\* Mutant: a failed save resets the form to its default values.
SubmitSettled_ResetsForm(error) ==
    /\ toastCalls' = IF error
                     THEN {Toast(ToastId("onSubmit", 1), "error", SaveErrorMessage)}
                     ELSE {Toast(ToastId("onSubmit", 1), "success", SavedMessage)}
    /\ isSubmitting' = FALSE
    /\ form' = IF error THEN defaultValues ELSE form
    /\ UNCHANGED << currentImageUrl, errors >>

\* onSubmit after its await, for the error of the upsert; handleSubmit then clears
\* isSubmitting.
SubmitSettled(error) ==
    /\ toastCalls' = IF error
                     THEN {Toast(ToastId("onSubmit", 1), "error", SaveErrorMessage)}
                     ELSE {Toast(ToastId("onSubmit", 1), "success", SavedMessage)}
    /\ isSubmitting' = FALSE
    /\ UNCHANGED << form, currentImageUrl, errors >>

\* Mutant: onSubmit sends the upsert again when it is answered with an error.
OnSubmitResume_Retries ==
    /\ submit.pc = "sent"
    /\ \E failed \in BOOLEAN :
          /\ app_settings' = IF failed THEN app_settings
                             ELSE Upsert(app_settings, submit.payload)
          /\ IF failed
             THEN /\ toastCalls' = {Toast(ToastId("onSubmit", 1), "error", SaveErrorMessage)}
                  /\ UNCHANGED << submit, isSubmitting, form, currentImageUrl, errors >>
             ELSE /\ SubmitSettled(failed)
                  /\ submit' = IdleSubmit
    /\ UNCHANGED << fetch, uploads, storage >>

\* The backend answers the upsert (the row is replaced, or an error) and onSubmit
\* resumes.
OnSubmitResume ==
    /\ submit.pc = "sent"
    /\ \E failed \in BOOLEAN :
          /\ app_settings' = IF failed THEN app_settings
                             ELSE Upsert(app_settings, submit.payload)
          /\ SubmitSettled(failed)
    /\ submit' = IdleSubmit
    /\ UNCHANGED << fetch, uploads, storage >>

-----------------------------------------------------------------------------

Next ==
    \/ Mount
    \/ SelectRespond
    \/ FetchSettingsResume
    \/ TypeBackgroundColor
    \/ TypeScreensaverIdleMinutes
    \/ HandleImageUploadNoFile
    \/ HandleImageUpload
    \/ HandleImageUploadResume
    \/ HandleSubmit
    \/ OnSubmitResume

Spec == Init /\ [][Next]_vars

\* The user only types and saves: load, typing and submit.
NextSave ==
    \/ Mount
    \/ SelectRespond
    \/ FetchSettingsResume
    \/ TypeBackgroundColor
    \/ TypeScreensaverIdleMinutes
    \/ HandleSubmit
    \/ OnSubmitResume

SpecSave == Init /\ [][NextSave]_vars

\* The user only uploads and saves: load, upload and submit.
NextUpload ==
    \/ Mount
    \/ SelectRespond
    \/ FetchSettingsResume
    \/ HandleImageUploadNoFile
    \/ HandleImageUpload
    \/ HandleImageUploadResume
    \/ HandleSubmit
    \/ OnSubmitResume

SpecUpload == Init /\ [][NextUpload]_vars

\* The user never submits: load and upload.
NextNoSubmit ==
    \/ Mount
    \/ SelectRespond
    \/ FetchSettingsResume
    \/ HandleImageUploadNoFile
    \/ HandleImageUpload
    \/ HandleImageUploadResume

SpecNoSubmit == Init /\ [][NextNoSubmit]_vars

\* The end-to-end run: the table holds no row of id 1, the load is answered, and
\* the user acts (types, uploads, submits) once the load is over; the user submits
\* until a save has written the row.
InitNoRow ==
    /\ Init
    /\ app_settings = {OtherRow}

NextScenario ==
    \/ Mount
    \/ SelectRespond
    \/ FetchSettingsResume
    \/ fetch.pc = "done" /\ TypeBackgroundColor
    \/ fetch.pc = "done" /\ TypeScreensaverIdleMinutes
    \/ fetch.pc = "done" /\ HandleImageUpload
    \/ fetch.pc = "done" /\ HandleImageUploadResume
    \/ fetch.pc = "done" /\ app_settings = {OtherRow} /\ HandleSubmit
    \/ fetch.pc = "done" /\ OnSubmitResume

SpecScenario == InitNoRow /\ [][NextScenario]_vars

\* The user picks files before submitting: as SpecUpload, but no upload starts
\* while an upsert is outstanding, so an upload suspended then was started before
\* the submit.
NextRace ==
    \/ Mount
    \/ SelectRespond
    \/ FetchSettingsResume
    \/ ~isSubmitting /\ HandleImageUpload
    \/ HandleImageUploadResume
    \/ HandleSubmit
    \/ OnSubmitResume

SpecRace == Init /\ [][NextRace]_vars

\* A row written by another client, with an empty color and zero minutes.
FalsyRow ==
    [ id |-> SettingsId, background_image_url |-> Null,
      background_color |-> Some(""), screensaver_idle_minutes |-> Some(0) ]

\* Load and upload, over every kind of row the read can return.
InitLoad ==
    /\ form = defaultValues
    /\ currentImageUrl = Null
    /\ isSubmitting = FALSE
    /\ errors = {}
    /\ fetch = IdleFetch
    /\ uploads = {}
    /\ submit = IdleSubmit
    /\ app_settings \in InitialTables \cup { {FalsyRow} }
    /\ storage = {}
    /\ toastCalls = {}

SpecLoad == InitLoad /\ [][NextNoSubmit]_vars

\* An object stored by an earlier session, at a path uuidv4() can return again.
OldObject == [path |-> FilePath("u1", <<"old", "jpg">>), file |-> <<"old", "jpg">>]

\* Load and upload, over a bucket that is empty or holds the earlier object.
InitStorage ==
    /\ form = defaultValues
    /\ currentImageUrl = Null
    /\ isSubmitting = FALSE
    /\ errors = {}
    /\ fetch = IdleFetch
    /\ uploads = {}
    /\ submit = IdleSubmit
    /\ app_settings \in InitialTables
    /\ storage \in { {}, {OldObject} }
    /\ toastCalls = {}

SpecStorage == InitStorage /\ [][NextNoSubmit]_vars

\* The load is answered late: the user types and picks files while the read is
\* outstanding, the uploads succeed, and the user submits once the load is over.
NextLateLoad ==
    \/ Mount
    \/ SelectRespond
    \/ FetchSettingsResume
    \/ fetch.pc # "done" /\ TypeBackgroundColor
    \/ fetch.pc # "done" /\ TypeScreensaverIdleMinutes
    \/ fetch.pc # "done" /\ HandleImageUpload
    \/ HandleImageUploadResume /\ \E t \in toastCalls' : t.type = "success"
    \/ fetch.pc = "done" /\ HandleSubmit
    \/ OnSubmitResume

SpecLateLoad == Init /\ [][NextLateLoad]_vars

\* The upload requests the handler can have suspended.
UploadRequests ==
    [ toastId  : {ToastId("handleImageUpload", n) : n \in 1..MaxUploads},
      file     : Files,
      filePath : {FilePath(uuid, file) : uuid \in Uuids, file \in Files} ]

\* The bucket answers the upload u and its handler resumes.
AnswerUpload(u) ==
    /\ u \in uploads
    /\ HandleImageUploadResume
    /\ u \notin uploads'

\* Load and upload, with a bucket that answers: every upload request that stays
\* suspended is answered and its handler resumed.
SpecUploadAnswered ==
    /\ Init
    /\ [][NextNoSubmit]_vars
    /\ \A u \in UploadRequests : WF_vars(AnswerUpload(u))

-----------------------------------------------------------------------------
(* Validation on its own: the form holds any values the user can have brought *)
(* it to (typed texts, values set from a row), the load is over, and the user *)
(* submits.                                                                   *)

Alphabet == {"0", "1", "5", "-", ".", "a"}

Texts == UNION { [1..n -> Alphabet] : n \in 0..MaxTextLen }

ValidationForms ==
    [ backgroundImageUrl     : {Null, Some(""), Some("https://cdn.example/old.png")},
      backgroundColor        : {"", " ", "#FF0000", DefaultBackgroundColor},
      screensaverIdleMinutes : {TextValue(s) : s \in Texts}
                               \cup {NumValue(n) : n \in {-3, 1, 15}} ]

InitValidate ==
    /\ form \in ValidationForms
    /\ currentImageUrl = form.backgroundImageUrl
    /\ isSubmitting = FALSE
    /\ errors = {}
    /\ fetch = [pc |-> "done", data |-> Null, error |-> Null]
    /\ uploads = {}
    /\ submit = IdleSubmit
    /\ app_settings \in InitialTables
    /\ storage = {}
    /\ toastCalls = {}

NextValidate ==
    \/ HandleSubmit
    \/ OnSubmitResume

SpecValidate == InitValidate /\ [][NextValidate]_vars

-----------------------------------------------------------------------------
(* The classes of form values the claims speak of, stated on the text itself *)

Letters == {"a"}

\* The text is not a number: it holds a letter.
NonNumericText(s) == \E i \in 1..Len(s) : s[i] \in Letters

\* The text is a zero: one or more "0".
ZeroText(s) == s # <<>> /\ \A i \in 1..Len(s) : s[i] = "0"

\* The text is a minus sign and digits: a negative integer (or minus zero).
NegativeText(s) ==
    Len(s) >= 2 /\ s[1] = "-" /\ \A i \in 2..Len(s) : s[i] \in {"0", "1", "5"}

\* The text is digits, not all "0": an integer >= 1.
PositiveIntegerText(s) ==
    /\ s # <<>>
    /\ \A i \in 1..Len(s) : s[i] \in {"0", "1", "5"}
    /\ \E i \in 1..Len(s) : s[i] # "0"

\* backgroundColor is "", or screensaverIdleMinutes is 0, negative or non-numeric.
ViolatesSchema(f) ==
    \/ f.backgroundColor = ""
    \/ /\ f.screensaverIdleMinutes.t = "str"
       /\ \/ ZeroText(f.screensaverIdleMinutes.s)
          \/ NegativeText(f.screensaverIdleMinutes.s)
          \/ NonNumericText(f.screensaverIdleMinutes.s)
    \/ /\ f.screensaverIdleMinutes.t = "num"
       /\ f.screensaverIdleMinutes.n <= 0

\* backgroundColor is non-empty and screensaverIdleMinutes is an integer >= 1.
ValidValues(f) ==
    /\ f.backgroundColor # ""
    /\ \/ f.screensaverIdleMinutes.t = "str" /\ PositiveIntegerText(f.screensaverIdleMinutes.s)
       \/ f.screensaverIdleMinutes.t = "num" /\ f.screensaverIdleMinutes.n >= 1

\* The integer a text of digits writes, digit by digit from the left.
RECURSIVE IntegerOfDigits(_, _)
IntegerOfDigits(s, acc) ==
    IF s = <<>> THEN acc
    ELSE IntegerOfDigits(Tail(s), 10 * acc + (CASE Head(s) = "0" -> 0
                                                [] Head(s) = "1" -> 1
                                                [] Head(s) = "5" -> 5))

MinutesMeant(f) ==
    IF f.screensaverIdleMinutes.t = "num" THEN f.screensaverIdleMinutes.n
    ELSE IntegerOfDigits(f.screensaverIdleMinutes.s, 0)

-----------------------------------------------------------------------------
(* Claims *)

\* C1: a submit whose form values violate the schema (backgroundColor "", or
\* screensaverIdleMinutes 0, negative or non-numeric) is blocked: no step taken
\* from such a form issues an upsert request, and none changes the settings table.
C1_InvalidSubmitBlocked ==
    [][ViolatesSchema(form) /\ submit.pc = "idle"
          => /\ submit'.pc = "idle"
             /\ app_settings' = app_settings
             /\ (HandleSubmit => errors' # {} /\ ~isSubmitting')]_vars

\* C1 witness: a submit of a non-numeric minutes text and an empty color was blocked.
C1_Witness ==
    /\ errors = {"backgroundColor", "screensaverIdleMinutes"}
    /\ form.backgroundColor = ""
    /\ form.screensaverIdleMinutes = TextValue(<<"a", "5">>)
    /\ submit.pc = "idle"

\* C2: for valid form values (backgroundColor non-empty, screensaverIdleMinutes an
\* integer >= 1) a submit is accepted and issues the one upsert request, which
\* carries id = 1 and the values of the form.
C2_ValidSubmitUpsertsId1 ==
    [][ValidValues(form) /\ HandleSubmit
          => /\ submit.pc = "idle" /\ submit'.pc = "sent"
             /\ isSubmitting' /\ errors' = {}
             /\ submit'.payload.id = 1
             /\ submit'.payload.background_color = Some(form.backgroundColor)
             /\ submit'.payload.screensaver_idle_minutes = Some(MinutesMeant(form))]_vars

\* C2 witness: the upsert of the typed minutes "15" is in flight.
C2_Witness ==
    /\ submit.pc = "sent"
    /\ form.screensaverIdleMinutes = TextValue(<<"1", "5">>)
    /\ submit.payload.id = 1
    /\ submit.payload.screensaver_idle_minutes = Some(15)

\* C3: the table never holds more than one row of id 1, the rows of other ids are
\* the ones it held before the component was mounted, and every upsert request
\* carries id 1: a write replaces the row and never adds one.
C3_SingleSettingsRow ==
    /\ Cardinality({r \in app_settings : r.id = 1}) <= 1
    /\ {r \in app_settings : r.id # 1} \subseteq {OtherRow}
    /\ submit.pc = "sent" => submit.payload.id = 1

\* C3 witness: the stored row was loaded and then replaced by a submit that
\* followed an upload; the row of the other feature is still there.
C3_Witness ==
    /\ Cardinality(app_settings) = 2
    /\ OtherRow \in app_settings
    /\ \E r \in app_settings :
          /\ r.id = 1
          /\ r.background_color = Some("#123456")
          /\ r.background_image_url # Some("https://cdn.example/old.png")

\* C4: the background_image_url of every upsert request is null or a non-empty
\* string, an empty image URL in the form is sent as null, and no row written by
\* the component holds the empty string.
C4_EmptyImageUrlIsNull ==
    /\ submit.pc = "sent" =>
          /\ submit.payload.background_image_url # Some("")
          /\ submit.values.backgroundImageUrl \in {Null, Some("")}
                => submit.payload.background_image_url = Null
    /\ \A r \in app_settings :
          r.id = 1 /\ r.background_image_url = Some("") => r = SparseRow

\* C4 witness: a form whose image URL is "" was submitted, and null is in flight.
C4_Witness ==
    /\ submit.pc = "sent"
    /\ submit.values.backgroundImageUrl = Some("")
    /\ submit.payload.background_image_url = Null

\* C5: with no submit, no step (an upload that succeeds or fails included) changes
\* the settings table or issues an upsert request.
C5_UploadDoesNotPersist ==
    [][app_settings' = app_settings /\ submit' = submit]_vars

\* C5 witness: an upload succeeded, its URL is in the form and in no row.
C5_Witness ==
    /\ form.backgroundImageUrl = Some(PublicUrl("backgrounds/u1.jpg"))
    /\ \E t \in toastCalls : t.type = "success"
    /\ \A r \in app_settings : r.background_image_url # form.backgroundImageUrl

\* C6: the form starts at (null, "#0A0A0A", 5) with a null preview, and the load
\* that is answered not-found (PGRST116) leaves the form and the preview as they
\* are and makes no toast call.
C6_NotFoundKeepsDefaults ==
    [][/\ fetch.pc = "mount" =>
              /\ form = [ backgroundImageUrl |-> <<>>, backgroundColor |-> "#0A0A0A",
                          screensaverIdleMinutes |-> NumValue(5) ]
              /\ currentImageUrl = <<>>
       /\ fetch.pc = "answered" /\ fetch.error = Some("PGRST116") /\ fetch'.pc = "done" =>
              /\ form' = form
              /\ currentImageUrl' = currentImageUrl
              /\ toastCalls' = {}]_vars

\* C6 witness: the load was answered not-found and the form is at its defaults.
C6_Witness ==
    /\ fetch.pc = "done"
    /\ fetch.error = Some("PGRST116")
    /\ form = [ backgroundImageUrl |-> <<>>, backgroundColor |-> "#0A0A0A",
                screensaverIdleMinutes |-> NumValue(5) ]
    /\ currentImageUrl = <<>>
    /\ toastCalls = {}

\* C7: the load that is answered with another error makes exactly one toast call,
\* an error, and leaves the form and the preview as they are; after it the submit
\* button and the file input still act.
C7_LoadErrorToastsOnce ==
    [][/\ fetch.pc = "answered" /\ fetch.error \notin {Null, Some("PGRST116")}
          /\ fetch'.pc = "done" =>
              /\ Cardinality(toastCalls') = 1
              /\ \A t \in toastCalls' :
                    t.type = "error" /\ t.message = "Gagal memuat pengaturan tampilan."
              /\ form' = form
              /\ currentImageUrl' = currentImageUrl
       /\ fetch.pc = "done" /\ fetch.error \notin {Null, Some("PGRST116")} =>
              /\ ~isSubmitting => ENABLED HandleSubmit
              /\ Cardinality(uploads) < MaxUploads => ENABLED HandleImageUpload]_vars

\* C7 witness: the load failed, the form is at its defaults and a later submit was
\* accepted.
C7_Witness ==
    /\ fetch.pc = "done"
    /\ fetch.error = Some("500")
    /\ form = defaultValues
    /\ submit.pc = "sent"

\* C8: the step that ends an upload makes one toast call on the id of its loading
\* notification; when the storage write failed (nothing stored) that call is an
\* error; when the call is an error the form's image URL and the preview are
\* unchanged; when the error is the missing public URL the object was stored and
\* stays stored.
C8_FailedUploadKeepsImage ==
    [][\A u \in uploads : u \notin uploads' =>
          /\ Cardinality(toastCalls') = 1
          /\ \A t \in toastCalls' :
                /\ t.id = u.toastId
                /\ t.type \in {"success", "error"}
                /\ storage' = storage => t.type = "error"
                /\ t.type = "error" =>
                      /\ form'.backgroundImageUrl = form.backgroundImageUrl
                      /\ currentImageUrl' = currentImageUrl
                /\ t.message = "Gagal mengunggah gambar: Gagal mendapatkan URL publik gambar." =>
                      /\ t.type = "error"
                      /\ [path |-> u.filePath, file |-> u.file] \notin storage
                      /\ storage' = storage \cup {[path |-> u.filePath, file |-> u.file]}]_vars

\* C8 witness: the public URL of a stored upload was missing; the image URL loaded
\* from the row is still in the form and the preview.
C8_Witness ==
    /\ \E t \in toastCalls :
          t.message = "Gagal mengunggah gambar: Gagal mendapatkan URL publik gambar."
    /\ storage # {}
    /\ form.backgroundImageUrl = Some("https://cdn.example/old.png")
    /\ currentImageUrl = Some("https://cdn.example/old.png")

\* C9: the step that ends an upload with success sets the form's image URL and the
\* preview to the public URL of that upload's path, and a submit accepted while the
\* form holds a non-empty image URL sends that URL as background_image_url.
C9_UploadedUrlIsSubmitted ==
    [][/\ \A u \in uploads :
             u \notin uploads' /\ (\E t \in toastCalls' : t.type = "success") =>
                /\ form'.backgroundImageUrl = Some(PublicUrl(u.filePath))
                /\ currentImageUrl' = Some(PublicUrl(u.filePath))
       /\ submit.pc = "idle" /\ submit'.pc = "sent"
             /\ form.backgroundImageUrl \notin {Null, Some("")} =>
                submit'.payload.background_image_url = form.backgroundImageUrl]_vars

\* C9 witness: the upload to backgrounds/u1.jpg succeeded and the submit that
\* followed carries its public URL.
C9_Witness ==
    /\ submit.pc = "sent"
    /\ submit.payload.background_image_url = Some(PublicUrl("backgrounds/u1.jpg"))
    /\ form.backgroundImageUrl = Some(PublicUrl("backgrounds/u1.jpg"))
    /\ currentImageUrl = Some(PublicUrl("backgrounds/u1.jpg"))
    /\ [path |-> "backgrounds/u1.jpg", file |-> <<"bg", "jpg">>] \in storage

\* C10: the step that ends a submit makes one toast call and leaves the form as it
\* is; when the call is the save error the table is unchanged, and a form that
\* still holds the submitted values is valid and yields the same upsert object.
C10_FailedSaveKeepsForm ==
    [][submit.pc = "sent" /\ submit'.pc = "idle" =>
          /\ Cardinality(toastCalls') = 1
          /\ form' = form
          /\ ~isSubmitting'
          /\ \A t \in toastCalls' :
                t.type = "error" =>
                   /\ t.message = "Gagal menyimpan pengaturan tampilan."
                   /\ app_settings' = app_settings
                   /\ form = submit.values =>
                         /\ form' = submit.values
                         /\ SchemaErrors(form') = {}
                         /\ UpsertPayload(SchemaParse(form')) = submit.payload]_vars

\* C10 witness: the save of the typed values failed and they are still in the form.
C10_Witness ==
    /\ \E t \in toastCalls : t.message = "Gagal menyimpan pengaturan tampilan."
    /\ form.backgroundColor = "#FF0000"
    /\ form.screensaverIdleMinutes = TextValue(<<"1", "0">>)
    /\ ~isSubmitting
    /\ app_settings \in InitialTables

\* The upsert object of the end-to-end run, for the public URL of an upload.
ScenarioPayload(url) ==
    [ id |-> 1, background_image_url |-> url,
      background_color |-> Some("#FF0000"), screensaver_idle_minutes |-> Some(10) ]

\* The public URLs of the objects stored by uploads of bg.jpg.
UploadedUrls ==
    { Some(PublicUrl(o.path)) : o \in {x \in storage : x.file = <<"bg", "jpg">>} }

\* C11: the table holds no row of id 1 and the load was answered not-found; the
\* user typed the color "#FF0000" and the minutes "10", and an upload of bg.jpg
\* succeeded and set the image URL.  The submit then made is accepted and puts one
\* upsert in flight, with id 1, that URL, "#FF0000" and 10; while it is in flight no
\* second submit is accepted; the step that answers it ends it with one toast call,
\* and when the backend took the write that call is the save success and the table
\* holds the row.
C11_EndToEnd ==
    [][/\ /\ fetch.pc = "done" /\ fetch.error = Some("PGRST116")
          /\ form.backgroundColor = "#FF0000"
          /\ form.screensaverIdleMinutes = TextValue(<<"1", "0">>)
          /\ form.backgroundImageUrl \in UploadedUrls
          /\ HandleSubmit
          => /\ submit.pc = "idle" /\ submit'.pc = "sent"
             /\ isSubmitting' /\ errors' = {}
             /\ submit'.payload = ScenarioPayload(form.backgroundImageUrl)
       /\ submit.pc = "sent" /\ (\E url \in UploadedUrls : submit.payload = ScenarioPayload(url))
          => /\ ~ENABLED HandleSubmit
             /\ submit' # submit =>
                   /\ submit'.pc = "idle"
                   /\ Cardinality(toastCalls') = 1
                   /\ \A t \in toastCalls' :
                         \/ /\ t.type = "success"
                            /\ t.message = "Pengaturan tampilan berhasil disimpan!"
                            /\ {r \in app_settings' : r.id = 1} = {submit.payload}
                         \/ /\ t.type = "error"
                            /\ app_settings' = app_settings]_vars

\* C11 witness: the run is over; the table holds the row of the upload to
\* backgrounds/u1.jpg and the save success was the toast call of the last step.
C11_Witness ==
    /\ fetch.error = Some("PGRST116")
    /\ submit.pc = "idle" /\ ~isSubmitting
    /\ toastCalls = {Toast(ToastId("onSubmit", 1), "success",
                           "Pengaturan tampilan berhasil disimpan!")}
    /\ storage = {[path |-> "backgrounds/u1.jpg", file |-> <<"bg", "jpg">>]}
    /\ ScenarioPayload(Some(PublicUrl("backgrounds/u1.jpg"))) \in app_settings
    /\ form = [ backgroundImageUrl |-> Some(PublicUrl("backgrounds/u1.jpg")),
                backgroundColor |-> "#FF0000",
                screensaverIdleMinutes |-> TextValue(<<"1", "0">>) ]

\* C12: the submit button is disabled exactly while an upsert is outstanding
\* (isSubmitting), a submit is not accepted then, the request outstanding is
\* replaced by no step, and a step that puts an upsert in flight starts from a state
\* in which none is outstanding: the previous one was answered.
C12_OneSubmitInFlight ==
    [][/\ isSubmitting <=> submit.pc = "sent"
       /\ submit.pc = "sent" =>
             /\ ~ENABLED HandleSubmit
             /\ submit' # submit => submit'.pc = "idle" /\ ~isSubmitting'
       /\ submit'.pc = "sent" /\ submit' # submit =>
             /\ submit.pc = "idle" /\ ~isSubmitting
             /\ isSubmitting']_vars

\* C12 witness: a second upsert (minutes 10) is in flight after the first one
\* (color "#FF0000", minutes 5) was answered and wrote its row.
C12_Witness ==
    /\ submit.pc = "sent" /\ isSubmitting
    /\ submit.payload.screensaver_idle_minutes = Some(10)
    /\ \E r \in app_settings :
          /\ r.id = 1
          /\ r.background_color = Some("#FF0000")
          /\ r.screensaver_idle_minutes = Some(5)

\* C13: a suspended upload does not disable the submit: while uploads are suspended
\* and no upsert is outstanding the submit is enabled; a submit accepted then sends
\* the image URL the form holds at that moment (null for an empty one) and leaves
\* the uploads suspended; and the answer to an upload changes nothing of the
\* outstanding request, whose object is what the table then receives.
C13_SubmitDuringUpload ==
    [][/\ uploads # {} /\ fetch.pc # "mount" /\ ~isSubmitting => ENABLED HandleSubmit
       /\ uploads # {} /\ submit.pc = "idle" /\ submit'.pc = "sent" =>
             /\ submit'.payload.background_image_url =
                   (IF form.backgroundImageUrl = Some("") THEN <<>>
                    ELSE form.backgroundImageUrl)
             /\ uploads' = uploads
       /\ submit.pc = "sent" /\ uploads' # uploads => submit' = submit
       /\ submit.pc = "sent" /\ app_settings' # app_settings =>
             {r \in app_settings' : r.id = 1} = {submit.payload}]_vars

\* C13 witness: no row was loaded, the upload to backgrounds/u1.jpg has just
\* succeeded and set the image URL, and the upsert outstanding, accepted while that
\* upload was suspended, carries null.
C13_Witness ==
    /\ fetch.pc = "done" /\ fetch.error = Some("PGRST116")
    /\ submit.pc = "sent"
    /\ submit.payload.background_image_url = <<>>
    /\ \E t \in toastCalls : t.type = "success"
    /\ form.backgroundImageUrl = Some(PublicUrl("backgrounds/u1.jpg"))
    /\ storage = {[path |-> "backgrounds/u1.jpg", file |-> <<"bg", "jpg">>]}

\* C14: no request is sent again.  The read is sent by the mount and never after
\* it; a step adds at most one upload request, and only the file selection does; an
\* upsert is put in flight only by an accepted submit; the step that handles an
\* answer ends that request (also when it reports a failure) and sends none.
C14_NoRetry ==
    [][/\ fetch'.pc = "sent" /\ fetch.pc # "sent" => fetch.pc = "mount" /\ Mount
       /\ fetch.pc # "mount" => fetch'.pc # "mount"
       /\ fetch.pc \in {"answered", "done"} => fetch'.pc \in {"answered", "done"}
       /\ uploads' # uploads =>
             \/ /\ HandleImageUpload
                /\ \E u \in uploads' : u \notin uploads /\ uploads' = uploads \cup {u}
             \/ /\ \E u \in uploads : uploads' = uploads \ {u}
                /\ submit'.pc = "sent" => submit' = submit
                /\ fetch' = fetch
       /\ submit' # submit =>
             \/ HandleSubmit /\ submit.pc = "idle" /\ submit'.pc = "sent"
             \/ /\ submit.pc = "sent" /\ submit'.pc = "idle"
                /\ uploads' = uploads
                /\ fetch' = fetch
       /\ \A t \in toastCalls' :
             t.type = "error" =>
                /\ t.id.op = "fetchSettings" => fetch'.pc = "done"
                /\ t.id.op = "onSubmit" => submit'.pc = "idle" /\ ~isSubmitting'
                /\ t.id.op = "handleImageUpload" =>
                      /\ \A u \in uploads' : u.toastId # t.id
                      /\ Cardinality(uploads') < Cardinality(uploads)
                /\ uploads' \subseteq uploads
                /\ submit'.pc = "sent" => submit' = submit
                /\ fetch'.pc = "sent" => fetch' = fetch]_vars

\* C14 witness: the load failed and the save that followed has just failed; no
\* request is outstanding and the table is as it was.
C14_Witness ==
    /\ fetch.pc = "done" /\ fetch.error = Some("500")
    /\ toastCalls = {Toast(ToastId("onSubmit", 1), "error",
                           "Gagal menyimpan pengaturan tampilan.")}
    /\ submit.pc = "idle" /\ ~isSubmitting
    /\ uploads = {}
    /\ app_settings \in InitialTables

\* The upload holding the loading notification n is suspended.
LoadingShown(n) == \E u \in uploads : u.toastId = [op |-> "handleImageUpload", n |-> n]

\* The last step replaced the notification n by a success or an error.
LoadingReplaced(n) ==
    \E t \in toastCalls :
        t.id = [op |-> "handleImageUpload", n |-> n] /\ t.type \in {"success", "error"}

\* C15: the step that starts an upload makes one toast call, a loading notification
\* whose id no other suspended upload holds; the step that ends an upload makes one
\* toast call, a success or an error on that id; and, the bucket answering, every
\* loading notification shown is replaced.
C15_LoadingToastResolved ==
    /\ [][/\ \A u \in uploads' : u \notin uploads =>
                /\ toastCalls' = {[id |-> u.toastId, type |-> "loading",
                                   message |-> "Mengunggah gambar latar belakang..."]}
                /\ \A v \in uploads : v.toastId # u.toastId
          /\ \A u \in uploads : u \notin uploads' =>
                /\ Cardinality(toastCalls') = 1
                /\ \A t \in toastCalls' :
                      t.id = u.toastId /\ t.type \in {"success", "error"}]_vars
    /\ \A n \in 1..MaxUploads : LoadingShown(n) ~> LoadingReplaced(n)

\* C15 witness: of two uploads suspended, the one holding notification 2 has just
\* been answered with an error and the other still shows its loading notification.
C15_Witness ==
    /\ LoadingShown(1)
    /\ LoadingReplaced(2)
    /\ \A t \in toastCalls : t.type = "error"
    /\ ~LoadingShown(2)

C17_StorageOnlyGrows ==
    [][/\ storage \subseteq storage'
       /\ \A o1, o2 \in storage' : o1.path = o2.path => o1 = o2
       /\ Cardinality(storage' \ storage) <= 1
       /\ \A o \in storage' \ storage :
             \E u \in uploads :
                u \notin uploads' /\ o = [path |-> u.filePath, file |-> u.file]
       /\ \A u \in uploads :
             u \notin uploads' /\ (\E o \in storage : o.path = u.filePath) =>
                /\ storage' = storage
                /\ \A t \in toastCalls' : t.type = "error"
                /\ form' = form /\ currentImageUrl' = currentImageUrl
       /\ \A u \in uploads :
             u \notin uploads' /\ (\E t \in toastCalls' : t.type = "success") =>
                /\ [path |-> u.filePath, file |-> u.file] \notin storage
                /\ storage' = storage \cup {[path |-> u.filePath, file |-> u.file]}]_vars

\* C17 witness: the upload of bg.jpg to the path of the earlier object has just
\* failed; that object is still there, next to the one a successful upload stored.
C17_Witness ==
    /\ storage = { [path |-> "backgrounds/u1.jpg", file |-> <<"old", "jpg">>],
                   [path |-> "backgrounds/u2.jpg", file |-> <<"bg", "jpg">>] }
    /\ \E t \in toastCalls :
          t.message = "Gagal mengunggah gambar: The resource already exists"
    /\ form.backgroundImageUrl = Some(PublicUrl("backgrounds/u2.jpg"))

\* C18: in every state the preview (currentImageUrl) equals the image URL field of
\* the form, and both are null until the component is mounted.
C18_PreviewEqualsField ==
    /\ currentImageUrl = form.backgroundImageUrl
    /\ fetch.pc = "mount" => currentImageUrl = <<>> /\ form.backgroundImageUrl = <<>>

\* C18 witness: the load set both from the stored row and an upload then set both
\* to its public URL.
C18_Witness ==
    /\ fetch.pc = "done" /\ fetch.data = Some(StoredRow)
    /\ currentImageUrl = Some(PublicUrl("backgrounds/u2.jpg"))
    /\ form.backgroundImageUrl = Some(PublicUrl("backgrounds/u2.jpg"))
    /\ form.backgroundColor = "#123456"

\* C19: the step that ends a load answered with a row replaces the form whatever it
\* holds (typed values, the URL of an upload that succeeded): the image URL field
\* and the preview become the row's background_image_url, the color and the minutes
\* the values the load derives from the row; and a submit accepted after it, while
\* the form holds the row's image URL, sends that URL (null for an empty one) and
\* not the URL of a stored upload.
C19_LateLoadOverwrites ==
    [][/\ fetch.pc = "answered" /\ fetch.data # <<>> /\ fetch'.pc = "done" =>
             LET row == fetch.data[1] IN
             /\ form'.backgroundImageUrl = row.background_image_url
             /\ currentImageUrl' = row.background_image_url
             /\ form'.backgroundColor =
                   (IF row.background_color \in {<<>>, <<"">>} THEN "#0A0A0A"
                    ELSE row.background_color[1])
             /\ form'.screensaverIdleMinutes =
                   (IF row.screensaver_idle_minutes \in {<<>>, <<0>>} THEN NumValue(5)
                    ELSE NumValue(row.screensaver_idle_minutes[1]))
       /\ /\ fetch.pc = "done" /\ fetch.data # <<>>
          /\ form.backgroundImageUrl = fetch.data[1].background_image_url
          /\ submit.pc = "idle" /\ submit'.pc = "sent"
          => /\ submit'.payload.background_image_url =
                   (IF form.backgroundImageUrl = <<"">> THEN <<>>
                    ELSE form.backgroundImageUrl)
             /\ submit'.payload.background_image_url \notin UploadedUrls]_vars

\* C19 witness: an upload to backgrounds/u1.jpg succeeded before the load was
\* answered with the stored row; the form holds the row's values, and the save
\* that followed has just succeeded and left the row's old image URL in the table.
C19_Witness ==
    /\ fetch.pc = "done" /\ fetch.data = Some(StoredRow)
    /\ storage = {[path |-> "backgrounds/u1.jpg", file |-> <<"bg", "jpg">>]}
    /\ uploads = {}
    /\ form = [ backgroundImageUrl |-> Some("https://cdn.example/old.png"),
                backgroundColor |-> "#123456",
                screensaverIdleMinutes |-> NumValue(15) ]
    /\ currentImageUrl = Some("https://cdn.example/old.png")
    /\ toastCalls = {Toast(ToastId("onSubmit", 1), "success",
                           "Pengaturan tampilan berhasil disimpan!")}
    /\ \E r \in app_settings :
          r.id = 1 /\ r.background_image_url = Some("https://cdn.example/old.png")

\* The load has not been handled yet, or it has failed.
NotLoaded ==
    \/ fetch.pc \in {"sent", "answered"}
    \/ fetch.pc = "done" /\ fetch.error \notin {<<>>, <<"PGRST116">>}

\* The upsert object of the form's default values.
DefaultsPayload ==
    [ id |-> 1, background_image_url |-> <<>>,
      background_color |-> <<"#0A0A0A">>, screensaver_idle_minutes |-> <<5>> ]

\* C20: while the load is outstanding and after it has failed the submit is enabled
\* (unless an upsert is outstanding); a submit made then with the untouched form is
\* accepted and sends (id 1, null, "#0A0A0A", 5); and when the backend takes that
\* upsert the row of id 1, whatever it held, is that object, the other rows staying.
C20_DefaultsOverwriteRow ==
    [][/\ NotLoaded /\ ~isSubmitting => ENABLED HandleSubmit
       /\ /\ NotLoaded
          /\ form = [ backgroundImageUrl |-> <<>>, backgroundColor |-> "#0A0A0A",
                      screensaverIdleMinutes |-> NumValue(5) ]
          /\ HandleSubmit
          => /\ submit'.pc = "sent" /\ isSubmitting'
             /\ submit'.payload = DefaultsPayload
       /\ /\ submit.pc = "sent" /\ submit.payload = DefaultsPayload
          /\ \E t \in toastCalls' : t.type = "success"
          => /\ {r \in app_settings' : r.id = 1} = {DefaultsPayload}
             /\ {r \in app_settings' : r.id # 1} = {r \in app_settings : r.id # 1}]_vars

\* C20 witness: the read returned the stored row, and before that response was
\* handled a submit of the untouched form was saved: the row of id 1 now holds the
\* defaults in place of the stored values.
C20_Witness ==
    /\ fetch.pc = "answered" /\ fetch.data = Some(StoredRow)
    /\ form = defaultValues
    /\ toastCalls = {Toast(ToastId("onSubmit", 1), "success",
                           "Pengaturan tampilan berhasil disimpan!")}
    /\ app_settings = {DefaultsPayload, OtherRow}

====
